---- MODULE Spec2Model ----
(***************************************************************************)
(* A model of simple-json-parser: the lexer (src/src/lexer.rs), the        *)
(* recursive-descent parser (src/src/parser.rs), the printer               *)
(* (src/src/j_item.rs) and the facade (src/src/lib.rs).                    *)
(*                                                                         *)
(* The lexer and the parser read their input through a Peekable iterator:  *)
(* one item at a time, left to right, with one item of lookahead.  The     *)
(* model reveals the input as the iterator is advanced: `text`/`tokens`    *)
(* hold the part of the input the iterator has looked at so far, and       *)
(* `tended`/`ended` say that the iterator has returned None.  A run of     *)
(* the model over a revealed input i is the run of the code on every input *)
(* that starts with i (and on i itself once the end has been seen).        *)
(*                                                                         *)
(* Recursion of the parser is an explicit stack of frames; the frame of    *)
(* parse_jitem is not kept because every call it makes is a tail call.     *)
(***************************************************************************)
EXTENDS Integers, Sequences, FiniteSets, TLC

VARIABLES
    mode,        \* "tokens": parse_tokens is called directly; "text": the facade
    round,       \* 1: the caller's input; 2: the re-parse of the rendered Value
    text,        \* characters of the input the lexer has looked at
    tended,      \* the character iterator has returned None
    cpos,        \* characters consumed by i.next()
    lstate,      \* "idle" | "run" | "ok" | "err" | "panic"
    lpc,         \* the lexer function in control: "lex" | "lex_string" | ...
    built,       \* built_string of the running lex_* function
    escaped,     \* lex_string's flag
    has_decimal, \* lex_number's flag
    ltokens,     \* the Vec<Token> lex is building
    lstart,      \* cpos when lex called the running lex_* function
    lerr,        \* the lexer's error message, when lstate = "err"
    tokens,      \* tokens of the input the parser has looked at
    ended,       \* the token iterator has returned None
    pos,         \* tokens consumed by tokens.next()
    pstate,      \* "idle" | "run" | "done"
    stack,       \* frames of parse / parse_jobject / parse_jarray
    ret,         \* the JItem the last finished call returned
    pres,        \* the Result parser::parse returned, when pstate = "done"
    orig,        \* the Value of round 1, kept for the round trip
    result       \* the Result of the facade, once it returned

vars == <<mode, round, text, tended, cpos, lstate, lpc, built, escaped,
          has_decimal, ltokens, lstart, lerr, tokens, ended, pos, pstate, stack,
          ret, pres, orig, result>>

lexVars == <<text, tended, cpos, lstate, lpc, built, escaped, has_decimal,
             ltokens, lstart, lerr>>

parseVars == <<tokens, ended, pos, pstate, stack, ret, pres>>

----------------------------------------------------------------------------
(* Bounds of the model.                                                    *)

MaxTokens == 9
MaxText == 4

----------------------------------------------------------------------------
(* Data: numbers, tokens, values, results.                                 *)

\* An f64 that came from a short decimal literal: (-1)^neg * mant * 10^-exp,
\* with mant not a multiple of ten unless exp = 0.
NoNum == [neg |-> FALSE, mant |-> 0, exp |-> 0]

Tok(k) == [kind |-> k, num |-> NoNum, s |-> <<>>]

NumberTok(n) == [kind |-> "Number", num |-> n, s |-> <<>>]

StringTok(str) == [kind |-> "String", num |-> NoNum, s |-> str]

\* Option::None of the token iterator.
EOF == Tok("EOF")

J(tag) == [tag |-> tag, num |-> NoNum, s |-> <<>>, items |-> <<>>, map |-> {}]

JNumber(n) == [J("Number") EXCEPT !.num = n]

JString(str) == [J("String") EXCEPT !.s = str]

JArray(items) == [J("Array") EXCEPT !.items = items]

\* A HashMap<String, JItem> is the set of its entries [k, v].
JObject(hmap) == [J("Object") EXCEPT !.map = hmap]

\* An error message: which format string, and the values formatted into it.
\* expected = "" and found = Tok("None") stand for "not in the message".
ErrMsg(msg, expected, found, key) ==
    [msg |-> msg, expected |-> expected, found |-> found, key |-> key]

NoErr == ErrMsg("none", "", Tok("None"), <<>>)

Ok(v) == [ok |-> TRUE, val |-> v, err |-> NoErr]

Err(e) == [ok |-> FALSE, val |-> J("None"), err |-> e]

NoResult == [ok |-> FALSE, val |-> J("None"), err |-> NoErr]

----------------------------------------------------------------------------
(* HashMap operations used by parse_jobject.                               *)

Keys(hmap) == {e.k : e \in hmap}

\* Mutant of ContainsKey: the key is never found, every insert goes through.
ContainsKeyNever(hmap, key) == FALSE

ContainsKey(hmap, key) == key \in Keys(hmap)

\* HashMap::insert replaces the value of a key that is present.
Insert(hmap, key, v) == {e \in hmap : e.k # key} \cup {[k |-> key, v |-> v]}

----------------------------------------------------------------------------
(* The parser.                                                             *)

Frame(fn, pc) ==
    [fn |-> fn, pc |-> pc, hmap |-> {}, key |-> <<>>, elements |-> <<>>,
     nkeys |-> 0,   \* key tokens this parse_jobject call has consumed
     iter |-> 0]    \* pos when the current loop iteration started

Top == stack[Len(stack)]

SetTop(f) == [stack EXCEPT ![Len(stack)] = f]

Pop == SubSeq(stack, 1, Len(stack) - 1)

\* Where a caller continues when its call to parse_jitem has returned.
AfterCall(fn) ==
    CASE fn = "parse" -> "left"
      [] fn = "parse_jobject" -> "insert"
      [] fn = "parse_jarray" -> "push"

TokenAlphabet ==
    {Tok("LBrace"), Tok("RBrace"), Tok("LSquareBracket"), Tok("RSquareBracket"),
     Tok("Colon"), Tok("Comma"), Tok("True"), Tok("Null"),
     NumberTok([neg |-> TRUE, mant |-> 15, exp |-> 1]),
     StringTok(<<"a">>), StringTok(<<"\"">>)}

\* What the iterator can yield at the cursor.
Avail ==
    IF pos < Len(tokens) THEN {tokens[pos + 1]}
    ELSE IF ended THEN {EOF}
    ELSE {EOF} \cup (IF mode = "tokens" /\ Len(tokens) < MaxTokens
                     THEN TokenAlphabet ELSE {})

Reveal(t) ==
    IF pos < Len(tokens) THEN UNCHANGED <<tokens, ended>>
    ELSE IF t = EOF THEN ended' = TRUE /\ UNCHANGED tokens
    ELSE tokens' = Append(tokens, t) /\ UNCHANGED ended

\* parser.rs:86-96 on the token `tok` that tokens.next() yielded.
expect_token(tok, expected) ==
    IF tok # EOF
    THEN IF tok.kind = expected
         THEN Ok(J("Unit"))
         ELSE Err(ErrMsg("Unexpected token during parse. Expected {:?} but got {:?}",
                         expected, tok, <<>>))
    ELSE Err(ErrMsg("Unexpected EOF during parse. Expected {:?} but got EOF.",
                    expected, EOF, <<>>))

\* parser.rs:18-27: the match of parse_jitem on the token `next`: the Result
\* of a literal, or the function parse_jitem tail-calls.
parse_jitem_match(next) ==
         CASE next.kind = "LBrace" -> [call |-> "parse_jobject", res |-> NoResult]
           [] next.kind = "LSquareBracket" -> [call |-> "parse_jarray", res |-> NoResult]
           [] next.kind = "Number" -> [call |-> "", res |-> Ok(JNumber(next.num))]
           [] next.kind = "String" -> [call |-> "", res |-> Ok(JString(next.s))]
           [] next.kind = "True" -> [call |-> "", res |-> Ok(J("True"))]
           [] next.kind = "False" -> [call |-> "", res |-> Ok(J("False"))]
           [] next.kind = "Null" -> [call |-> "", res |-> Ok(J("Null"))]
           [] OTHER -> [call |-> "", res |-> Err(ErrMsg("Unexpected '{:?}' during parse.",
                                                       "", next, <<>>))]

\* Mutant of parse_jitem: at the end of the tokens it returns Null.
parse_jitem_null_at_eof(next) ==
    IF next = EOF
    THEN [call |-> "", res |-> Ok(J("Null"))]
    ELSE parse_jitem_match(next)

\* parser.rs:14-28 on what tokens.next() yielded.
parse_jitem(next) ==
    IF next = EOF
    THEN [call |-> "", res |-> Err(ErrMsg("tried to parse JItem, but got EOF.",
                                          "JItem", EOF, <<>>))]
    ELSE parse_jitem_match(next)

\* The `?` operator: the error leaves every frame at once.
Fail(e) ==
    /\ pstate' = "done"
    /\ pres' = Err(e)
    /\ UNCHANGED <<stack, ret>>

\* parser.rs:5-7
ParseStart ==
    /\ mode = "tokens"
    /\ round = 1
    /\ pstate = "idle"
    /\ pstate' = "run"
    /\ stack' = <<Frame("parse", "item")>>
    /\ UNCHANGED <<tokens, ended, pos, ret, pres>>
    /\ UNCHANGED <<mode, round, orig, result>>
    /\ UNCHANGED lexVars

\* parser.rs:14-28, called by the frame on top.
ParseJItem ==
    /\ pstate = "run"
    /\ Top.pc = "item"
    /\ \E t \in Avail :
         LET r == parse_jitem(t)
             caller == [Top EXCEPT !.pc = AfterCall(Top.fn)]
         IN /\ Reveal(t)
            /\ pos' = IF t = EOF THEN pos ELSE pos + 1
            /\ IF r.call # ""
               THEN /\ stack' = Append(SetTop(caller), Frame(r.call, "loop"))
                    /\ UNCHANGED <<pstate, pres, ret>>
               ELSE IF r.res.ok
               THEN /\ stack' = SetTop(caller)
                    /\ ret' = r.res.val
                    /\ UNCHANGED <<pstate, pres>>
               ELSE Fail(r.res.err)
    /\ UNCHANGED <<mode, round, orig, result>>
    /\ UNCHANGED lexVars

\* parser.rs:32-46 and 60: the head of parse_jobject's loop.
ObjLoop ==
    /\ pstate = "run"
    /\ Top.fn = "parse_jobject" /\ Top.pc = "loop"
    /\ \E next \in Avail :
         /\ Reveal(next)
         /\ IF next = EOF
            THEN /\ Fail(ErrMsg("unexpected EOF during parse of array.", "", EOF, <<>>))
                 /\ UNCHANGED pos
            ELSE IF next = Tok("RBrace")
            THEN /\ pos' = pos + 1
                 /\ stack' = Pop
                 /\ ret' = JObject(Top.hmap)
                 /\ UNCHANGED <<pstate, pres>>
            ELSE IF next.kind # "String"
            THEN /\ Fail(ErrMsg("expected string key for jobject but got {:?}",
                                "string key", next, <<>>))
                 /\ UNCHANGED pos
            ELSE IF ContainsKey(Top.hmap, next.s)
            THEN /\ Fail(ErrMsg("duplicate key found in jobject: '{}'",
                                "", Tok("None"), next.s))
                 /\ UNCHANGED pos
            ELSE /\ pos' = pos + 1
                 /\ stack' = SetTop([Top EXCEPT !.pc = "colon", !.key = next.s,
                                                !.nkeys = @ + 1, !.iter = pos])
                 /\ UNCHANGED <<pstate, pres, ret>>
    /\ UNCHANGED <<mode, round, orig, result>>
    /\ UNCHANGED lexVars

\* parser.rs:48
ObjColon ==
    /\ pstate = "run"
    /\ Top.fn = "parse_jobject" /\ Top.pc = "colon"
    /\ \E t \in Avail :
         LET r == expect_token(t, "Colon")
         IN /\ Reveal(t)
            /\ pos' = IF t = EOF THEN pos ELSE pos + 1
            /\ IF r.ok
               THEN /\ stack' = SetTop([Top EXCEPT !.pc = "item"])
                    /\ UNCHANGED <<pstate, pres, ret>>
               ELSE Fail(r.err)
    /\ UNCHANGED <<mode, round, orig, result>>
    /\ UNCHANGED lexVars

\* parser.rs:52-57
ObjInsert ==
    /\ pstate = "run"
    /\ Top.fn = "parse_jobject" /\ Top.pc = "insert"
    /\ \E t \in Avail :
         LET hmap == Insert(Top.hmap, Top.key, ret)
         IN /\ Reveal(t)
            /\ IF t = Tok("RBrace")
               THEN /\ pos' = pos + 1
                    /\ stack' = Pop
                    /\ ret' = JObject(hmap)
               ELSE /\ stack' = SetTop([Top EXCEPT !.pc = "comma", !.hmap = hmap])
                    /\ UNCHANGED <<pos, ret>>
    /\ UNCHANGED <<pstate, pres>>
    /\ UNCHANGED <<mode, round, orig, result>>
    /\ UNCHANGED lexVars

\* parser.rs:58
ObjComma ==
    /\ pstate = "run"
    /\ Top.fn = "parse_jobject" /\ Top.pc = "comma"
    /\ \E t \in Avail :
         LET r == expect_token(t, "Comma")
         IN /\ Reveal(t)
            /\ pos' = IF t = EOF THEN pos ELSE pos + 1
            /\ IF r.ok
               THEN /\ stack' = SetTop([Top EXCEPT !.pc = "loop"])
                    /\ UNCHANGED <<pstate, pres, ret>>
               ELSE Fail(r.err)
    /\ UNCHANGED <<mode, round, orig, result>>
    /\ UNCHANGED lexVars

\* parser.rs:65-71 and 83: the head of parse_jarray's loop.
ArrLoop ==
    /\ pstate = "run"
    /\ Top.fn = "parse_jarray" /\ Top.pc = "loop"
    /\ \E next \in Avail :
         /\ Reveal(next)
         /\ IF next = EOF
            THEN /\ Fail(ErrMsg("unexpected EOF during parse of array.", "", EOF, <<>>))
                 /\ UNCHANGED pos
            ELSE IF next = Tok("RSquareBracket")
            THEN /\ pos' = pos + 1
                 /\ stack' = Pop
                 /\ ret' = JArray(Top.elements)
                 /\ UNCHANGED <<pstate, pres>>
            ELSE /\ stack' = SetTop([Top EXCEPT !.pc = "item", !.iter = pos])
                 /\ UNCHANGED <<pos, pstate, pres, ret>>
    /\ UNCHANGED <<mode, round, orig, result>>
    /\ UNCHANGED lexVars

\* parser.rs:73-80
ArrPush ==
    /\ pstate = "run"
    /\ Top.fn = "parse_jarray" /\ Top.pc = "push"
    /\ \E t \in Avail :
         LET elements == Append(Top.elements, ret)
         IN /\ Reveal(t)
            /\ IF t = Tok("RSquareBracket")
               THEN /\ pos' = pos + 1
                    /\ stack' = Pop
                    /\ ret' = JArray(elements)
               ELSE /\ stack' = SetTop([Top EXCEPT !.pc = "comma", !.elements = elements])
                    /\ UNCHANGED <<pos, ret>>
    /\ UNCHANGED <<pstate, pres>>
    /\ UNCHANGED <<mode, round, orig, result>>
    /\ UNCHANGED lexVars

\* parser.rs:81
ArrComma ==
    /\ pstate = "run"
    /\ Top.fn = "parse_jarray" /\ Top.pc = "comma"
    /\ \E t \in Avail :
         LET r == expect_token(t, "Comma")
         IN /\ Reveal(t)
            /\ pos' = IF t = EOF THEN pos ELSE pos + 1
            /\ IF r.ok
               THEN /\ stack' = SetTop([Top EXCEPT !.pc = "loop"])
                    /\ UNCHANGED <<pstate, pres, ret>>
               ELSE Fail(r.err)
    /\ UNCHANGED <<mode, round, orig, result>>
    /\ UNCHANGED lexVars

\* Mutant of parse_result: the tokens after the item are not looked at.
parse_result_ignoring_rest(t, item) == Ok(item)

\* parser.rs:8-11 on what tokens.peek() yielded after the item was parsed.
parse_result(t, item) ==
    IF t # EOF
    THEN Err(ErrMsg("Parsing finished with tokens left.", "", Tok("None"), <<>>))
    ELSE Ok(item)

\* parser.rs:8-11
ParseFinish ==
    /\ pstate = "run"
    /\ Top.fn = "parse" /\ Top.pc = "left"
    /\ \E t \in Avail :
         /\ Reveal(t)
         /\ pres' = parse_result(t, ret)
    /\ pstate' = "done"
    /\ UNCHANGED <<pos, stack, ret>>
    /\ UNCHANGED <<mode, round, orig, result>>
    /\ UNCHANGED lexVars

ParserStep ==
    \/ ParseJItem
    \/ ObjLoop
    \/ ObjColon
    \/ ObjInsert
    \/ ObjComma
    \/ ArrLoop
    \/ ArrPush
    \/ ArrComma
    \/ ParseFinish

----------------------------------------------------------------------------
(* Numbers: str::parse::<f64> and Display for f64, on decimal literals.    *)
(* A literal of at most fifteen significant digits denotes one f64 and     *)
(* Display prints the shortest decimal that reads back as that f64, so the *)
(* model keeps the exact decimal.                                          *)

Digits == <<"0", "1", "2", "3", "4", "5", "6", "7", "8", "9">>

IsDigit(c) == \E i \in 1..10 : Digits[i] = c

DigitVal(c) == (CHOOSE i \in 1..10 : Digits[i] = c) - 1

Letters ==
    {"a", "b", "c", "d", "e", "f", "g", "h", "i", "j", "k", "l", "m", "n", "o",
     "p", "q", "r", "s", "t", "u", "v", "w", "x", "y", "z",
     "A", "B", "C", "D", "E", "F", "G", "H", "I", "J", "K", "L", "M", "N", "O",
     "P", "Q", "R", "S", "T", "U", "V", "W", "X", "Y", "Z"}

IsAlpha(c) == c \in Letters

RECURSIVE DigitsValue(_)
DigitsValue(ds) ==
    IF ds = <<>> THEN 0
    ELSE 10 * DigitsValue(SubSeq(ds, 1, Len(ds) - 1)) + DigitVal(ds[Len(ds)])

RECURSIVE Pow10(_)
Pow10(n) == IF n = 0 THEN 1 ELSE 10 * Pow10(n - 1)

RECURSIVE Normalise(_, _, _)
Normalise(neg, mant, exp) ==
    IF exp > 0 /\ mant % 10 = 0
    THEN Normalise(neg, mant \div 10, exp - 1)
    ELSE [neg |-> neg, mant |-> mant, exp |-> exp]

\* built_string.parse::<f64>() for the strings lex_number builds: an optional
\* '-', then digits with at most one '.'.  Err when there is no digit at all.
NumParse(str) ==
    LET neg == Len(str) > 0 /\ str[1] = "-"
        body == IF neg THEN Tail(str) ELSE str
        dots == {i \in 1..Len(body) : body[i] = "."}
        dot == IF dots = {} THEN Len(body) + 1 ELSE CHOOSE i \in dots : TRUE
        int == SubSeq(body, 1, dot - 1)
        frac == SubSeq(body, dot + 1, Len(body))
    IN IF Len(int) + Len(frac) = 0
       THEN [ok |-> FALSE, num |-> NoNum]
       ELSE [ok |-> TRUE,
             num |-> Normalise(neg, DigitsValue(int \o frac), Len(frac))]

RECURSIVE NatDisplay(_)
NatDisplay(n) ==
    IF n < 10 THEN <<Digits[n + 1]>>
    ELSE NatDisplay(n \div 10) \o <<Digits[(n % 10) + 1]>>

RECURSIVE ZeroPad(_, _)
ZeroPad(ds, width) == IF Len(ds) >= width THEN ds ELSE ZeroPad(<<"0">> \o ds, width)

\* format!("{}", x) for an f64 x.
NumDisplay(n) ==
    (IF n.neg THEN <<"-">> ELSE <<>>)
    \o NatDisplay(n.mant \div Pow10(n.exp))
    \o (IF n.exp = 0 THEN <<>>
        ELSE <<".">> \o ZeroPad(NatDisplay(n.mant % Pow10(n.exp)), n.exp))

\* f64's == : the two zeros are equal.
NumEq(a, b) == a = b \/ (a.mant = 0 /\ b.mant = 0)

----------------------------------------------------------------------------
(* The lexer.                                                              *)

CharEOF == "EOF"

CharAlphabet ==
    {"{", "}", "[", "]", ":", ",", "-", "\"", "\\", "0", "1", ".", " ", "@",
     "n", "u", "l"}

\* What the character iterator can yield at the cursor.
LexAvail ==
    IF cpos < Len(text) THEN {text[cpos + 1]}
    ELSE IF tended THEN {CharEOF}
    ELSE {CharEOF} \cup (IF Len(text) < MaxText THEN CharAlphabet ELSE {})

LexReveal(c) ==
    IF cpos < Len(text) THEN UNCHANGED <<text, tended>>
    ELSE IF c = CharEOF THEN tended' = TRUE /\ UNCHANGED text
    ELSE text' = Append(text, c) /\ UNCHANGED tended

\* lexer.rs:27-32
Structural(c) ==
    CASE c = "{" -> "LBrace"
      [] c = "}" -> "RBrace"
      [] c = "[" -> "LSquareBracket"
      [] c = "]" -> "RSquareBracket"
      [] c = ":" -> "Colon"
      [] c = "," -> "Comma"
      [] OTHER -> ""

IsWhitespace(c) == c \in {" ", "\n", "\t", "\r"}

\* lexer.rs:75-80
Keyword(str) ==
    CASE str = <<"t", "r", "u", "e">> -> "True"
      [] str = <<"f", "a", "l", "s", "e">> -> "False"
      [] str = <<"n", "u", "l", "l">> -> "Null"
      [] OTHER -> ""

LexFail(msg, what) ==
    /\ lstate' = "err"
    /\ lerr' = ErrMsg(msg, "", Tok("None"), what)

\* lexer.rs:25-43: one iteration of lex's loop, up to the call of lex_*.
Lex ==
    /\ lstate = "run"
    /\ lpc = "lex"
    /\ \E c \in LexAvail :
         /\ LexReveal(c)
         /\ cpos' = IF c = CharEOF THEN cpos ELSE cpos + 1
         /\ lstart' = cpos'
         /\ IF c = CharEOF
            THEN /\ lstate' = "ok"
                 /\ UNCHANGED <<lpc, built, escaped, has_decimal, ltokens, lerr>>
            ELSE IF Structural(c) # ""
            THEN /\ ltokens' = Append(ltokens, Tok(Structural(c)))
                 /\ UNCHANGED <<lstate, lpc, built, escaped, has_decimal, lerr>>
            ELSE IF c = "-" \/ IsDigit(c)
            THEN /\ lpc' = "lex_number"
                 /\ built' = <<c>>
                 /\ has_decimal' = FALSE
                 /\ UNCHANGED <<lstate, escaped, ltokens, lerr>>
            ELSE IF c = "\""
            THEN /\ lpc' = "lex_string"
                 /\ built' = <<>>
                 /\ escaped' = FALSE
                 /\ UNCHANGED <<lstate, has_decimal, ltokens, lerr>>
            ELSE IF IsAlpha(c)
            THEN /\ lpc' = "lex_ident"
                 /\ built' = <<c>>
                 /\ UNCHANGED <<lstate, escaped, has_decimal, ltokens, lerr>>
            ELSE IF IsWhitespace(c)
            THEN UNCHANGED <<lstate, lpc, built, escaped, has_decimal, ltokens, lerr>>
            ELSE /\ LexFail("Unknown symbol '{}'", <<c>>)
                 /\ UNCHANGED <<lpc, built, escaped, has_decimal, ltokens>>
    /\ UNCHANGED <<mode, round, orig, result>>
    /\ UNCHANGED parseVars

\* Mutant of lex_string_step: the quote is looked for before the escape flag.
lex_string_step_quote_first(c, esc, str) ==
    IF c = "\""
    THEN [escaped |-> FALSE, built |-> str, close |-> TRUE]
    ELSE IF esc
    THEN [escaped |-> FALSE, built |-> Append(str, c), close |-> FALSE]
    ELSE IF c = "\\"
    THEN [escaped |-> TRUE, built |-> str, close |-> FALSE]
    ELSE [escaped |-> FALSE, built |-> Append(str, c), close |-> FALSE]

\* lexer.rs:51-60: the body of lex_string's loop on the character c.
lex_string_step(c, esc, str) ==
    IF esc
    THEN [escaped |-> FALSE, built |-> Append(str, c), close |-> FALSE]
    ELSE IF c = "\\"
    THEN [escaped |-> TRUE, built |-> str, close |-> FALSE]
    ELSE IF c = "\""
    THEN [escaped |-> FALSE, built |-> str, close |-> TRUE]
    ELSE [escaped |-> FALSE, built |-> Append(str, c), close |-> FALSE]

\* lexer.rs:50-62: one iteration of lex_string's loop.
LexString ==
    /\ lstate = "run"
    /\ lpc = "lex_string"
    /\ \E c \in LexAvail :
         /\ LexReveal(c)
         /\ cpos' = IF c = CharEOF THEN cpos ELSE cpos + 1
         /\ IF c = CharEOF
            THEN /\ LexFail("unterminated string literal. reached EOF.", <<>>)
                 /\ UNCHANGED <<lpc, built, escaped, ltokens>>
            ELSE LET r == lex_string_step(c, escaped, built)
                 IN /\ escaped' = r.escaped
                    /\ built' = r.built
                    /\ IF r.close
                       THEN /\ ltokens' = Append(ltokens, StringTok(r.built))
                            /\ lpc' = "lex"
                       ELSE UNCHANGED <<lpc, ltokens>>
                    /\ UNCHANGED <<lstate, lerr>>
    /\ UNCHANGED <<has_decimal, lstart>>
    /\ UNCHANGED <<mode, round, orig, result>>
    /\ UNCHANGED parseVars

\* lexer.rs:68-80: one iteration of lex_ident's loop, or the match after it.
LexIdent ==
    /\ lstate = "run"
    /\ lpc = "lex_ident"
    /\ \E c \in LexAvail :
         /\ LexReveal(c)
         /\ IF IsAlpha(c)
            THEN /\ built' = Append(built, c)
                 /\ cpos' = cpos + 1
                 /\ UNCHANGED <<lstate, lpc, ltokens, lerr>>
            ELSE /\ UNCHANGED <<cpos, built>>
                 /\ IF Keyword(built) # ""
                    THEN /\ ltokens' = Append(ltokens, Tok(Keyword(built)))
                         /\ lpc' = "lex"
                         /\ UNCHANGED <<lstate, lerr>>
                    ELSE /\ LexFail("unknown keyword '{}'", built)
                         /\ UNCHANGED <<lpc, ltokens>>
    /\ UNCHANGED <<escaped, has_decimal, lstart>>
    /\ UNCHANGED <<mode, round, orig, result>>
    /\ UNCHANGED parseVars

\* lexer.rs:87-105: one iteration of lex_number's loop, or the parse after it.
LexNumber ==
    /\ lstate = "run"
    /\ lpc = "lex_number"
    /\ \E c \in LexAvail :
         /\ LexReveal(c)
         /\ IF IsDigit(c)
            THEN /\ built' = Append(built, c)
                 /\ cpos' = cpos + 1
                 /\ UNCHANGED <<lstate, lpc, has_decimal, ltokens, lerr>>
            ELSE IF c = "."
            THEN IF has_decimal
                 THEN /\ LexFail("multiple '.' found in number literal.", <<>>)
                      /\ UNCHANGED <<cpos, lpc, built, has_decimal, ltokens>>
                 ELSE /\ built' = Append(built, c)
                      /\ has_decimal' = TRUE
                      /\ cpos' = cpos + 1
                      /\ UNCHANGED <<lstate, lpc, ltokens, lerr>>
            ELSE /\ UNCHANGED <<cpos, built, has_decimal, lerr>>
                 /\ IF NumParse(built).ok
                    THEN /\ ltokens' = Append(ltokens, NumberTok(NumParse(built).num))
                         /\ lpc' = "lex"
                         /\ UNCHANGED lstate
                    ELSE \* .unwrap() of an Err: the thread panics
                         /\ lstate' = "panic"
                         /\ UNCHANGED <<lpc, ltokens>>
    /\ UNCHANGED <<escaped, lstart>>
    /\ UNCHANGED <<mode, round, orig, result>>
    /\ UNCHANGED parseVars

LexerStep ==
    \/ Lex
    \/ LexString
    \/ LexIdent
    \/ LexNumber

----------------------------------------------------------------------------
(* The printer: impl Display for JItem.                                    *)

RECURSIVE Renderings(_)
RECURSIVE ArrBodies(_)
RECURSIVE ObjBodies(_)

\* j_item.rs:30-36: the items' renderings joined by ",".
ArrBodies(items) ==
    IF items = <<>> THEN {<<>>}
    ELSE IF Len(items) = 1 THEN Renderings(items[1])
    ELSE {h \o <<",">> \o t : h \in Renderings(items[1]), t \in ArrBodies(Tail(items))}

\* j_item.rs:38-44: "key":value joined by ",", in the HashMap's iteration
\* order, which is any order.
ObjBodies(hmap) ==
    IF hmap = {} THEN {<<>>}
    ELSE UNION {
           {<<"\"">> \o e.k \o <<"\"", ":">> \o r
              \o (IF t = <<>> THEN <<>> ELSE <<",">> \o t) :
                r \in Renderings(e.v), t \in ObjBodies(hmap \ {e})} : e \in hmap}

\* j_item.rs:14-28: the texts format!("{}", v) can produce.
Renderings(v) ==
    CASE v.tag = "Object" -> {<<"{">> \o b \o <<"}">> : b \in ObjBodies(v.map)}
      [] v.tag = "Array" -> {<<"[">> \o b \o <<"]">> : b \in ArrBodies(v.items)}
      [] v.tag = "String" -> {<<"\"">> \o v.s \o <<"\"">>}
      [] v.tag = "Number" -> {NumDisplay(v.num)}
      [] v.tag = "True" -> {<<"t", "r", "u", "e">>}
      [] v.tag = "False" -> {<<"f", "a", "l", "s", "e">>}
      [] v.tag = "Null" -> {<<"n", "u", "l", "l">>}

\* #[derive(PartialEq)] on JItem: HashMaps are equal as mappings.
RECURSIVE JEq(_, _)
JEq(a, b) ==
    /\ a.tag = b.tag
    /\ CASE a.tag = "Object" ->
              /\ Keys(a.map) = Keys(b.map)
              /\ \A e \in a.map : \A f \in b.map : e.k = f.k => JEq(e.v, f.v)
         [] a.tag = "Array" ->
              /\ Len(a.items) = Len(b.items)
              /\ \A i \in 1..Len(a.items) : JEq(a.items[i], b.items[i])
         [] a.tag = "String" -> a.s = b.s
         [] a.tag = "Number" -> NumEq(a.num, b.num)
         [] OTHER -> TRUE

----------------------------------------------------------------------------
(* The facade, lib.rs:8-11, and a caller that renders the Value it got     *)
(* and parses the rendering.                                               *)

\* lib.rs:9: lex(input_string) is called.
FacadeStart ==
    /\ mode = "text"
    /\ round = 1
    /\ lstate = "idle"
    /\ lstate' = "run"
    /\ UNCHANGED <<text, tended, cpos, lpc, built, escaped, has_decimal, ltokens,
                   lstart, lerr>>
    /\ UNCHANGED <<mode, round, orig, result>>
    /\ UNCHANGED parseVars

\* lib.rs:9: the `?` returns the lexer's error.
FacadeLexFailed ==
    /\ lstate = "err"
    /\ result = NoResult
    /\ result' = Err(lerr)
    /\ UNCHANGED <<mode, round, orig>>
    /\ UNCHANGED lexVars
    /\ UNCHANGED parseVars

\* Mutant of LexSucceeded: the facade goes on with the tokens lexed before
\* the error.
LexReturned == lstate \in {"ok", "err"}

\* lib.rs:9: the `?` lets the facade go on only with Ok(tokens).
LexSucceeded == lstate = "ok"

\* lib.rs:10 with parser.rs:5-7: parser::parse(tokens) is called.
FacadeParse ==
    /\ LexSucceeded
    /\ pstate = "idle"
    /\ tokens' = ltokens
    /\ ended' = TRUE
    /\ pos' = 0
    /\ pstate' = "run"
    /\ stack' = <<Frame("parse", "item")>>
    /\ UNCHANGED <<ret, pres>>
    /\ UNCHANGED <<mode, round, orig, result>>
    /\ UNCHANGED lexVars

\* lib.rs:10: the facade returns what parser::parse returned.
FacadeReturn ==
    /\ mode = "text" \/ round = 2
    /\ pstate = "done"
    /\ result = NoResult
    /\ result' = pres
    /\ UNCHANGED <<mode, round, orig>>
    /\ UNCHANGED lexVars
    /\ UNCHANGED parseVars

\* The Value of round 1.
FirstValue == IF mode = "text" THEN result ELSE pres

\* The caller formats the Value and calls the facade on the text.
Render ==
    /\ round = 1
    /\ pstate = "done"
    /\ FirstValue.ok
    /\ round' = 2
    /\ orig' = FirstValue.val
    /\ text' \in Renderings(FirstValue.val)
    /\ tended' = TRUE
    /\ cpos' = 0
    /\ lstate' = "run"
    /\ lpc' = "lex"
    /\ built' = <<>>
    /\ escaped' = FALSE
    /\ has_decimal' = FALSE
    /\ ltokens' = <<>>
    /\ lstart' = 0
    /\ lerr' = NoErr
    /\ tokens' = <<>>
    /\ ended' = FALSE
    /\ pos' = 0
    /\ pstate' = "idle"
    /\ stack' = <<>>
    /\ ret' = J("None")
    /\ pres' = NoResult
    /\ result' = NoResult
    /\ UNCHANGED mode

----------------------------------------------------------------------------

InitCommon ==
    /\ round = 1
    /\ text = <<>>
    /\ cpos = 0
    /\ lstate = "idle"
    /\ lpc = "lex"
    /\ built = <<>>
    /\ escaped = FALSE
    /\ has_decimal = FALSE
    /\ ltokens = <<>>
    /\ lstart = 0
    /\ lerr = NoErr
    /\ tokens = <<>>
    /\ ended = FALSE
    /\ pos = 0
    /\ pstate = "idle"
    /\ stack = <<>>
    /\ ret = J("None")
    /\ pres = NoResult
    /\ orig = J("None")
    /\ result = NoResult

\* The caller calls parser::parse on a token sequence (mode "tokens", no text),
\* or the facade on a text (mode "text").
Init ==
    /\ mode \in {"tokens", "text"}
    /\ tended = (mode = "tokens")
    /\ InitCommon

Next ==
    \/ ParseStart
    \/ ParserStep
    \/ FacadeStart
    \/ LexerStep
    \/ FacadeLexFailed
    \/ FacadeParse
    \/ FacadeReturn
    \/ Render

Spec == Init /\ [][Next]_vars

\* A call runs to completion: no step that can be taken is put off for ever.
FairSpec == Spec /\ WF_vars(Next)

----------------------------------------------------------------------------
\* The grammar of parser input, read as a pushdown recogniser:
\*   value  := object | array | STRING | NUMBER | TRUE | FALSE | NULL
\*   object := '{' [ pair { ',' pair } ] '}'        pair := STRING ':' value
\*   array  := '[' [ value { ',' value } ] ']'
\* GRun(ts, uniq) is the recogniser's state after the tokens ts; with uniq it
\* also rejects a key an object already has.  val is the Value the derivation
\* denotes.

GFrame(obj) ==
    [obj |-> obj, ph |-> "first", keys |-> {}, key |-> <<>>, items |-> <<>>, map |-> {}]

GInit == [rej |-> FALSE, complete |-> FALSE, st |-> <<>>, val |-> J("None")]

GReject == [rej |-> TRUE, complete |-> FALSE, st |-> <<>>, val |-> J("None")]

GTop(g) == g.st[Len(g.st)]

GPop(g) == [g EXCEPT !.st = SubSeq(g.st, 1, Len(g.st) - 1)]

\* The value v is complete in the context g.
GValue(g, v) ==
    IF g.st = <<>>
    THEN [g EXCEPT !.complete = TRUE, !.val = v]
    ELSE IF GTop(g).obj
    THEN [g EXCEPT !.st[Len(g.st)] =
            [@ EXCEPT !.ph = "afterval", !.map = @ \cup {[k |-> GTop(g).key, v |-> v]}]]
    ELSE [g EXCEPT !.st[Len(g.st)] =
            [@ EXCEPT !.ph = "afterval", !.items = Append(@, v)]]

GExpectsValue(g) ==
    IF g.st = <<>> THEN ~g.complete
    ELSE IF GTop(g).obj THEN GTop(g).ph = "aftercolon"
    ELSE GTop(g).ph \in {"first", "aftercomma"}

GLiteral(t) ==
    CASE t.kind = "String" -> JString(t.s)
      [] t.kind = "Number" -> JNumber(t.num)
      [] t.kind = "True" -> J("True")
      [] t.kind = "False" -> J("False")
      [] t.kind = "Null" -> J("Null")

GStep(g, t, uniq) ==
    IF g.rej \/ (g.st = <<>> /\ g.complete) THEN GReject
    ELSE IF g.st # <<>> /\ ~GTop(g).obj /\ GTop(g).ph = "first" /\ t.kind = "RSquareBracket"
    THEN GValue(GPop(g), JArray(<<>>))
    ELSE IF GExpectsValue(g)
    THEN CASE t.kind \in {"String", "Number", "True", "False", "Null"} -> GValue(g, GLiteral(t))
           [] t.kind = "LBrace" -> [g EXCEPT !.st = Append(@, GFrame(TRUE))]
           [] t.kind = "LSquareBracket" -> [g EXCEPT !.st = Append(@, GFrame(FALSE))]
           [] OTHER -> GReject
    ELSE IF GTop(g).obj
    THEN CASE GTop(g).ph \in {"first", "aftercomma"} /\ t.kind = "String" ->
                IF uniq /\ t.s \in GTop(g).keys THEN GReject
                ELSE [g EXCEPT !.st[Len(g.st)] =
                        [@ EXCEPT !.ph = "afterkey", !.key = t.s, !.keys = @ \cup {t.s}]]
           [] GTop(g).ph \in {"first", "afterval"} /\ t.kind = "RBrace" ->
                GValue(GPop(g), JObject(GTop(g).map))
           [] GTop(g).ph = "afterkey" /\ t.kind = "Colon" ->
                [g EXCEPT !.st[Len(g.st)] = [@ EXCEPT !.ph = "aftercolon"]]
           [] GTop(g).ph = "afterval" /\ t.kind = "Comma" ->
                [g EXCEPT !.st[Len(g.st)] = [@ EXCEPT !.ph = "aftercomma"]]
           [] OTHER -> GReject
    ELSE CASE GTop(g).ph = "afterval" /\ t.kind = "Comma" ->
                [g EXCEPT !.st[Len(g.st)] = [@ EXCEPT !.ph = "aftercomma"]]
           [] GTop(g).ph = "afterval" /\ t.kind = "RSquareBracket" ->
                GValue(GPop(g), JArray(GTop(g).items))
           [] OTHER -> GReject

RECURSIVE GRun(_, _)
GRun(ts, uniq) ==
    IF ts = <<>> THEN GInit
    ELSE GStep(GRun(SubSeq(ts, 1, Len(ts) - 1), uniq), ts[Len(ts)], uniq)

\* ts is exactly one value of the grammar.
Derivable(ts) == GRun(ts, FALSE).complete

\* ts is exactly one value of the grammar and no object of it repeats a key.
WellFormed(ts) == GRun(ts, TRUE).complete

\* ts can be continued to a well-formed sequence and is not one yet.
OpenPrefix(ts) == ~GRun(ts, TRUE).rej /\ ~GRun(ts, TRUE).complete

MsgTokensLeft == "Parsing finished with tokens left."

MsgDuplicate == "duplicate key found in jobject: '{}'"

MsgItemEOF == "tried to parse JItem, but got EOF."

MsgLoopEOF == "unexpected EOF during parse of array."

MsgExpectEOF == "Unexpected EOF during parse. Expected {:?} but got EOF."

MsgUnterminated == "unterminated string literal. reached EOF."

----------------------------------------------------------------------------
(* Claims.                                                                 *)

\* C1: parse_tokens returns a Value exactly for the token sequences that are
\* one value of the grammar (a sequence with a comma that no element or pair
\* follows is an error), and the Value is the one the derivation denotes,
\* Arrays in token order.  Stated with the keys of an object distinct where
\* the claim demands success.
C1_Original ==
    pstate = "done" =>
        /\ pres.ok => (Derivable(tokens) /\ pres.val = GRun(tokens, FALSE).val)
        /\ (ended /\ WellFormed(tokens)) => pres.ok

\* C2: an object under construction holds one entry per key token it has
\* consumed, a consumed key is never one the object already has, and the
\* duplicate-key error is raised at the repeated key, by the object that has
\* it, whatever keys the enclosing objects have.
C2_DuplicateKeys ==
    /\ \A i \in 1..Len(stack) :
         stack[i].fn = "parse_jobject" =>
            LET f == stack[i]
                pending == f.pc \in {"colon", "item", "insert"}
            IN /\ Cardinality(f.hmap) = f.nkeys - (IF pending THEN 1 ELSE 0)
               /\ Cardinality(Keys(f.hmap)) = Cardinality(f.hmap)
               /\ pending => f.key \notin Keys(f.hmap)
    /\ (pstate = "done" /\ ~pres.ok /\ pres.err.msg = MsgDuplicate) =>
          /\ Top.fn = "parse_jobject" /\ Top.pc = "loop"
          /\ pos < Len(tokens)
          /\ tokens[pos + 1] = StringTok(pres.err.key)
          /\ pres.err.key \in Keys(Top.hmap)
    /\ (pstate = "done" /\ pres.ok /\ Derivable(tokens)) => WellFormed(tokens)

\* C2 witness: a nested object took the key its parent has, and then failed
\* on the repetition of that key in itself.
C2_Witness ==
    /\ pstate = "done" /\ ~pres.ok /\ pres.err.msg = MsgDuplicate
    /\ Len(stack) = 3
    /\ stack[2].fn = "parse_jobject" /\ stack[3].fn = "parse_jobject"
    /\ stack[2].key = pres.err.key

\* C3: parse_tokens returns Ok only with the cursor at the end of the
\* sequence, and a well-formed value followed by more tokens is the
\* "tokens left" error.
C3_TokensLeft ==
    pstate = "done" =>
        /\ pres.ok => (ended /\ pos = Len(tokens))
        /\ (\E k \in 1..(Len(tokens) - 1) : WellFormed(SubSeq(tokens, 1, k))) =>
              (~pres.ok /\ pres.err.msg = MsgTokensLeft)

C3_Witness ==
    /\ pstate = "done" /\ ~pres.ok /\ pres.err.msg = MsgTokensLeft
    /\ Len(tokens) >= 4
    /\ WellFormed(SubSeq(tokens, 1, Len(tokens) - 1))

\* C4: lex ends with tokens or with an error, never with a panic.
C4_Original == lstate # "panic"

\* C5: when parse succeeded with the Value v, parse(render(v)) succeeds with
\* a Value equal to v.
C5_Original ==
    (mode = "text" /\ round = 2) =>
        /\ lstate \notin {"err", "panic"}
        /\ pstate = "done" => (pres.ok /\ JEq(pres.val, orig))

\* C6: every grammar error of parse_tokens names the token kind it expected
\* and the token (or EOF) it found.
C6_Original ==
    (pstate = "done" /\ ~pres.ok /\ pres.err.msg \notin {MsgDuplicate, MsgTokensLeft}) =>
        (pres.err.expected # "" /\ pres.err.found # Tok("None"))

\* C7: when the tokens end before a value is complete (the empty sequence, or
\* a well-formed array or object cut before its closer), parse_tokens fails
\* with an end-of-input error; the empty sequence with "got EOF".
C7_EndOfInput ==
    (pstate = "done" /\ ended /\ OpenPrefix(tokens)) =>
        /\ ~pres.ok
        /\ pres.err.msg \in {MsgItemEOF, MsgLoopEOF, MsgExpectEOF}
        /\ pres.err.found = EOF
        /\ tokens = <<>> => pres.err.msg = MsgItemEOF

C7_Witness ==
    /\ pstate = "done" /\ ended /\ OpenPrefix(tokens)
    /\ Len(tokens) >= 5
    /\ pres.err.msg = MsgExpectEOF

\* The facade was called: by the caller in mode "text", by the re-parse in
\* round 2.
FacadeCalled == mode = "text" \/ round = 2

\* C8: the facade returns the lexer's error without running the parser when
\* lex fails, and what parse_tokens returns for lex's tokens otherwise.
C8_Facade ==
    FacadeCalled =>
        /\ lstate = "err" => (pstate = "idle" /\ pos = 0 /\ stack = <<>>)
        /\ (lstate = "err" /\ result # NoResult) => result = Err(lerr)
        /\ result # NoResult => lstate \in {"ok", "err"}
        /\ (lstate = "ok" /\ result # NoResult) =>
              (pstate = "done" /\ tokens = ltokens /\ result = pres)
        /\ pstate # "idle" => (lstate = "ok" /\ tokens = ltokens /\ ended)

\* C8 witness: the text starts with a grammar violation and has a lexical
\* error later; the facade returned the lexical error.
C8_Witness ==
    /\ mode = "text" /\ round = 1
    /\ result = Err(lerr)
    /\ lstate = "err"
    /\ ltokens # <<>> /\ ltokens[1].kind \in {"Comma", "RSquareBracket", "Colon", "RBrace"}

\* The string literal that starts at index i of txt, scanned two characters
\* at a time: a backslash takes the character after it along, the first
\* quote that no backslash took closes the literal at index `end`.
RECURSIVE RefScan(_, _, _)
RefScan(txt, i, acc) ==
    IF i > Len(txt) THEN [closed |-> FALSE, end |-> 0, str |-> acc]
    ELSE IF txt[i] = "\\"
    THEN IF i + 1 > Len(txt) THEN [closed |-> FALSE, end |-> 0, str |-> acc]
         ELSE RefScan(txt, i + 2, Append(acc, txt[i + 1]))
    ELSE IF txt[i] = "\"" THEN [closed |-> TRUE, end |-> i, str |-> acc]
    ELSE RefScan(txt, i + 1, Append(acc, txt[i]))

C9_Step ==
    (lpc = "lex_string" /\ lstate = "run") =>
        LET r == RefScan(text', lstart + 1, <<>>)
        IN /\ lpc' = "lex" <=> (r.closed /\ r.end = cpos')
           /\ lpc' = "lex" => ltokens' = Append(ltokens, StringTok(r.str))
           /\ lstate' = "err" <=> (~r.closed /\ tended' /\ cpos = Len(text'))
           /\ lstate' = "err" => (lerr'.msg = MsgUnterminated /\ ltokens' = ltokens)
           /\ lpc' # "lex" => ltokens' = ltokens
           /\ lstate' \in {"run", "err"}

\* C9: lex_string closes a literal at the first quote that no active
\* backslash escapes and emits its characters with each escaping backslash
\* dropped and the escaped character kept; when the input ends before that
\* quote it fails with "unterminated string literal" and emits no token.
C9_StringScan == [][C9_Step]_vars

\* C9 witness: a String token whose text holds a quote that was escaped.
C9_Witness ==
    /\ mode = "text" /\ round = 1
    /\ lstate = "run" /\ lpc = "lex"
    /\ Len(ltokens) = 1 /\ ltokens[1].kind = "String"
    /\ \E i \in 1..Len(ltokens[1].s) : ltokens[1].s[i] = "\""

Opening(ts) == {i \in 1..Len(ts) : ts[i].kind \in {"LBrace", "LSquareBracket"}}

\* One step of a call: the cursors move forward by at most one, an iteration
\* of a loop that goes on has consumed a character or a token, and the
\* parser is no deeper than the opening tokens it has consumed.
C10_Step ==
    /\ round' = round =>
          /\ cpos' \in {cpos, cpos + 1}
          /\ pos' \in {pos, pos + 1}
    /\ (lstate = "run" /\ lstate' = "run" /\ (lpc' = lpc \/ lpc = "lex")) =>
          cpos' = cpos + 1
    /\ (pstate = "run" /\ pstate' = "run" /\ Len(stack') = Len(stack)
          /\ Top.pc = "comma" /\ Top'.pc = "loop") => pos' >= Top.iter + 2
    /\ Len(stack') <= 1 + Cardinality(Opening(SubSeq(tokens', 1, pos')))

\* A call of lex that stops running has returned tokens or an error.
C10_Outcome == (lstate = "run" /\ lstate' # "run") => lstate' \in {"ok", "err"}

\* C10: lex and parse_tokens halt with a result or an error on every finite
\* input, their cursors never move backwards, every iteration that does not
\* return consumes a character or a token, and the recursion is no deeper
\* than the opening tokens.
C10_Original ==
    /\ [][C10_Step /\ C10_Outcome]_vars
    /\ (lstate = "run") ~> (lstate \in {"ok", "err"})
    /\ (pstate = "run") ~> (pstate = "done")

\* C10 without the outcome of lex: every call halts, be it by the panic of
\* lex_number, and every step makes the progress C10 states.
C10_Halting ==
    /\ [][C10_Step]_vars
    /\ (lstate = "run") ~> (lstate \in {"ok", "err", "panic"})
    /\ (pstate = "run") ~> (pstate = "done")

====
